---- MODULE Spec2Model ----
(***************************************************************************)
(* Model of MOBO (src/src/mobo.py): one round of bi-objective Bayesian     *)
(* optimization, MOBO.optimize, with its helper MOBO._optimize.            *)
(*                                                                         *)
(* Conventions.                                                            *)
(*  - An optional value is a sequence: <<>> is Python's None / "not yet    *)
(*    bound", <<v>> is the value v.                                        *)
(*  - Arrays are sequences of rows; a row is a sequence of integers.       *)
(*    Coordinates are grid units of the domain.                            *)
(*  - numpy arrays are objects: heap maps a reference to its contents and  *)
(*    the locals of optimize hold references, so aliasing and in-place     *)
(*    writes are visible.                                                  *)
(*  - The collaborators that are not part of mobo.py (surrogate fit, local *)
(*    optimizer) answer nondeterministically; the scalarization weight     *)
(*    10^U is kept exact by scaling the combined objective by 10^(-LOW).   *)
(***************************************************************************)
EXTENDS Integers, Sequences, FiniteSets, TLC

VARIABLES
    range_X, normalize_Y,                       \* engine configuration (self)
    pc,                                         \* position inside optimize
    heap,                                       \* reference -> array contents
    X_train, Y_train,                           \* references held by the caller
    str_sampling_method, num_samples, seed,     \* the other arguments
    Y_train_1, Y_train_2,                       \* locals of optimize (references)
    Y_train_orig_1, Y_train_orig_2,
    fit_1, fit_2,                               \* (cov_X_X_i, inv_cov_X_X_i, hyps_i)
    log_weight,
    initials, list_next_point,                  \* locals of _optimize
    next_point, next_points,
    result,                                     \* what optimize returned
    passed,                                     \* history: array contents at call time
    fit_calls, minimize_calls, sampler_calls,   \* history: collaborator invocations
    unconverged,                                \* history: runs that reported failure
    trace,                                      \* history: states of the round
    round, prev                                 \* history: the previous round

engine == <<range_X, normalize_Y>>
args   == <<X_train, Y_train, str_sampling_method, num_samples, seed, passed>>
ycols  == <<Y_train_1, Y_train_2, Y_train_orig_1, Y_train_orig_2>>
fits   == <<fit_1, fit_2, fit_calls>>
search == <<initials, list_next_point, unconverged, minimize_calls, sampler_calls>>
chosen == <<next_point, next_points>>
hist   == <<round, prev>>
vars   == <<engine, pc, heap, args, ycols, fits, log_weight, search, chosen,
            result, trace, hist>>

-----------------------------------------------------------------------------
(* Bounds of the model *)

MaxSamples == 2

(* Program constants *)

MULTIPLIER_ACQ == 10
LOW == -3
HIGH == 3
SEED_OFFSET == 101

None == <<>>
Some(v) == <<v>>
NoRef == "none"

SetMin(S) == CHOOSE m \in S : \A x \in S : m <= x
SetMax(S) == CHOOSE m \in S : \A x \in S : m >= x
Abs(n) == IF n < 0 THEN -n ELSE n

RECURSIVE Pow10(_)
Pow10(n) == IF n <= 0 THEN 1 ELSE 10 * Pow10(n - 1)

RECURSIVE SumTo(_, _)
SumTo(f, n) == IF n = 0 THEN 0 ELSE f[n] + SumTo(f, n - 1)

-----------------------------------------------------------------------------
(* Shapes *)

Rows(M) == Len(M)
Cols(M) == Len(M[1])

num_dim == Len(range_X)
Lo(d) == range_X[d][1]
Hi(d) == range_X[d][2]

ALLOWED_SAMPLING_METHOD == {"uniform", "sobol"}

\* The entry checks with the column count of Y_train checked only from below.
PreconditionsHoldAtLeastTwoColumns(X, Y, method, n, s) ==
    /\ Len(s) <= 1
    /\ Cols(Y) >= 2
    /\ Rows(X) = Rows(Y)
    /\ Cols(X) = num_dim
    /\ n > 0
    /\ method \in ALLOWED_SAMPLING_METHOD

\* The assertions at the head of optimize.
PreconditionsHold(X, Y, method, n, s) ==
    /\ Len(s) <= 1
    /\ Cols(Y) = 2
    /\ Rows(X) = Rows(Y)
    /\ Cols(X) = num_dim
    /\ n > 0
    /\ method \in ALLOWED_SAMPLING_METHOD

-----------------------------------------------------------------------------
(* Responses *)

\* Y_train[:, [j]]: a fresh N x 1 array holding column j.
Column(Y, j) == [i \in 1..Len(Y) |-> <<Y[i][j]>>]

\* utils_bo.normalize_min_max: min-max normalization of an N x 1 array into a
\* fresh array; a constant column maps to the constant 0.
normalize_min_max(Y) ==
    LET vals == {Y[i][1] : i \in 1..Len(Y)}
        mn == SetMin(vals)
        mx == SetMax(vals)
    IN  IF mx # mn
        THEN [i \in 1..Len(Y) |-> <<(Y[i][1] - mn) \div (mx - mn)>>]
        ELSE [i \in 1..Len(Y) |-> <<0>>]

\* Normalization written into the column arrays themselves.
NormalizeResponsesInPlace(h, r1, r2) ==
    IF normalize_Y
    THEN [heap |-> [r \in DOMAIN h |->
                       IF r = r1 THEN normalize_min_max(h[r1])
                       ELSE IF r = r2 THEN normalize_min_max(h[r2])
                       ELSE h[r]],
          y1 |-> r1, y2 |-> r2]
    ELSE [heap |-> h, y1 |-> r1, y2 |-> r2]

\* The heap and the two local references after lines 193-198.
NormalizeResponses(h, r1, r2) ==
    IF normalize_Y
    THEN [heap |-> [r \in DOMAIN h \cup {"n1", "n2"} |->
                       IF r = "n1" THEN normalize_min_max(h[r1])
                       ELSE IF r = "n2" THEN normalize_min_max(h[r2])
                       ELSE h[r]],
          y1 |-> "n1", y2 |-> "n2"]
    ELSE [heap |-> h, y1 |-> r1, y2 |-> r2]

-----------------------------------------------------------------------------
(* Surrogates and acquisitions *)

\* What a surrogate fit can answer: the hyperparameters fix the shape of the
\* acquisition surface (its centre and slope); cov and inv are the matrices
\* that belong to them.
HypsSet == { [noise |-> 0, center |-> 2, amp |-> 1],
             [noise |-> 0, center |-> 0, amp |-> -1],
             [noise |-> 1, center |-> 1, amp |-> 0] }

FitReturn(h, n) == [cov |-> <<"K", n, h.center, h.amp>>,
                    inv |-> <<"Kinv", n, h.center, h.amp>>,
                    hyps |-> h]

\* fun_acquisition over the posterior of compute_posteriors at point x.
Posterior(h, x) == SumTo([d \in 1..Len(x) |-> Abs(x[d] - h.center)], Len(x))

compute_acquisitions(f, x) == (f.hyps.amp * Posterior(f.hyps, x)) * MULTIPLIER_ACQ

fun_negative_acquisition_i(f, x) == -1 * compute_acquisitions(f, x)

\* RandomState(s).uniform(low, high): a value of [low, high] fixed by s.
Uniform(s, low, high) == low + ((s * 5 + 3) % (high - low + 1))

\* RandomState(s) accepts only 0 <= s < 2^32; the seeds of the model stay far
\* below the upper limit.
SeedAccepted(s) == s >= 0

\* The weight drawn from the process-wide generator, whose state moves on
\* from call to call.
DrawLogWeightGlobal(s) == Uniform(round + SEED_OFFSET, LOW, HIGH)

\* The weight drawn from the generator the restart sampler has already used
\* for num_samples points.
DrawLogWeightShared(s) == Uniform(s[1] + SEED_OFFSET + num_samples, LOW, HIGH)

DrawLogWeight(s) == Uniform(s[1] + SEED_OFFSET, LOW, HIGH)

\* fun_negative_acquisition_1(x) + 10**log_weight * fun_negative_acquisition_2(x),
\* in units of 10^LOW.
fun_negative_acquisition(f1, f2, u, x) ==
    Pow10(0 - LOW) * fun_negative_acquisition_i(f1, x)
      + Pow10(u - LOW) * fun_negative_acquisition_i(f2, x)

-----------------------------------------------------------------------------
(* Restarts *)

MethodIndex(m) == IF m = "uniform" THEN 0 ELSE 1

\* self.get_samples(method, num_samples, seed): num_samples points of the box.
get_samples(method, n, s) ==
    [k \in 1..n |-> [d \in 1..num_dim |->
        Lo(d) + ((s[1] * 3 + k * 2 + d + MethodIndex(method)) % (Hi(d) - Lo(d) + 1))]]

\* What minimize can return: any point of the box or one grid unit outside it.
RECURSIVE PointsFrom(_)
PointsFrom(d) ==
    IF d > num_dim THEN {<<>>}
    ELSE {<<c>> \o p : c \in (Lo(d) - 1)..(Hi(d) + 1), p \in PointsFrom(d + 1)}

RawPoints == PointsFrom(1)

\* utils_bo.get_best_acquisition_by_evaluation: the row with the lowest value
\* of the objective evaluated on all rows; the first such row on ties.
ArgMin(vals) ==
    CHOOSE i \in 1..Len(vals) :
        /\ \A j \in 1..Len(vals) : vals[i] <= vals[j]
        /\ \A j \in 1..(i - 1) : vals[j] > vals[i]

Evaluate(points, f1, f2, u) ==
    [i \in 1..Len(points) |-> fun_negative_acquisition(f1, f2, u, points[i])]

\* utils_bo.check_points_in_bounds: every coordinate moved to the nearest bound.
Clamp(c, d) == IF c < Lo(d) THEN Lo(d) ELSE IF c > Hi(d) THEN Hi(d) ELSE c

check_points_in_bounds(points) ==
    [i \in 1..Len(points) |-> [d \in 1..Len(points[i]) |-> Clamp(points[i][d], d)]]

InBounds(p) == \A d \in 1..Len(p) : Lo(d) <= p[d] /\ p[d] <= Hi(d)

-----------------------------------------------------------------------------
(* Inputs *)

Domains == { << <<0, 2>> >>, << <<0, 1>>, <<1, 1>> >> }

XChoices == { [i \in 1..n |-> [j \in 1..c |-> 1]] : n \in 1..2, c \in 1..2 }

YChoices == { << <<1, 3>>, <<2, 3>> >>,
              << <<1, 2, 3>>, <<2, 1, 3>> >>,
              << <<1>>, <<2>> >> }

Methods == ALLOWED_SAMPLING_METHOD \cup {"bogus"}

Seeds == {None, Some(0), Some(0 - SEED_OFFSET - 1)}

AllInputs == [X : XChoices, Y : YChoices, method : Methods,
              n : 0..MaxSamples, s : Seeds]

\* The inputs of the two-round runs: the training data held fixed, the seed,
\* the sampling method and the number of restarts varying.
PairInputs == [X : XChoices, Y : {<< <<1, 3>>, <<2, 3>> >>},
               method : ALLOWED_SAMPLING_METHOD, n : {1, 2},
               s : {Some(0), Some(1)}]

Unbound == /\ Y_train_1 = NoRef /\ Y_train_2 = NoRef
           /\ Y_train_orig_1 = NoRef /\ Y_train_orig_2 = NoRef
           /\ fit_1 = None /\ fit_2 = None /\ fit_calls = <<>>
           /\ log_weight = None
           /\ initials = <<>> /\ list_next_point = <<>> /\ unconverged = 0
           /\ minimize_calls = <<>> /\ sampler_calls = <<>>
           /\ next_point = None /\ next_points = <<>>
           /\ result = None

Init ==
    /\ range_X \in Domains
    /\ normalize_Y \in BOOLEAN
    /\ pc = "idle"
    /\ heap = <<>>
    /\ X_train = NoRef /\ Y_train = NoRef
    /\ str_sampling_method = "" /\ num_samples = 0 /\ seed = None
    /\ passed = None
    /\ Unbound
    /\ trace = <<>>
    /\ round = 1 /\ prev = None

InitPair == Init /\ Len(range_X) = 1

-----------------------------------------------------------------------------
(* The previous round, kept to compare two calls on the same engine *)

CallInputs == [X |-> passed[1].X, Y |-> passed[1].Y, method |-> str_sampling_method,
               n |-> num_samples, s |-> seed]

RoundSummary ==
    [inputs |-> CallInputs, full |-> TRUE,
     log_weight |-> log_weight, initials |-> initials,
     sampler_calls |-> sampler_calls,
     fit_calls |-> fit_calls, fit_1 |-> fit_1, fit_2 |-> fit_2,
     raw |-> list_next_point,
     next_point |-> result[1].next_point,
     next_points |-> result[1].dict_info.next_points]

\* A later call with other inputs shares no collaborator call with the round
\* before it that the comparison uses: only the seeded draws are kept.
Forget(p) ==
    [p EXCEPT !.full = FALSE, !.fit_calls = <<>>, !.fit_1 = None, !.fit_2 = None,
              !.raw = <<>>, !.next_point = <<>>,
              !.next_points = <<>>]

PrevFor(i) ==
    IF prev = None THEN None
    ELSE IF prev[1].inputs = i THEN prev ELSE Some(Forget(prev[1]))

-----------------------------------------------------------------------------
(* optimize: entry (lines 167-183) *)

Enter(i) ==
    /\ heap' = [r \in {"X", "Y"} |-> IF r = "X" THEN i.X ELSE i.Y]
    /\ X_train' = "X" /\ Y_train' = "Y"
    /\ str_sampling_method' = i.method
    /\ num_samples' = i.n
    /\ seed' = i.s
    /\ passed' = Some([X |-> i.X, Y |-> i.Y])
    /\ prev' = PrevFor(i)
    /\ UNCHANGED <<engine, ycols, fits, log_weight, search, chosen, result, round>>

\* An assertion of lines 172-183 fails: AssertionError, nothing is returned.
CallRejected ==
    /\ pc = "idle"
    /\ \E i \in AllInputs :
        /\ ~PreconditionsHold(i.X, i.Y, i.method, i.n, i.s)
        /\ Enter(i)
    /\ pc' = "failed"
    /\ trace' = <<>>

CallAccepted(Inputs) ==
    /\ pc = "idle"
    /\ \E i \in Inputs :
        /\ PreconditionsHold(i.X, i.Y, i.method, i.n, i.s)
        /\ Enter(i)
    /\ pc' = "Start"
    /\ trace' = <<"Start">>

-----------------------------------------------------------------------------
(* optimize: responses (lines 187-198) *)

SplitColumns(h, y) ==
    [r \in DOMAIN h \cup {"c1", "c2"} |->
        IF r = "c1" THEN Column(h[y], 1)
        ELSE IF r = "c2" THEN Column(h[y], 2)
        ELSE h[r]]

SplitAndNormalize ==
    /\ pc = "Start"
    /\ LET nr == NormalizeResponses(SplitColumns(heap, Y_train), "c1", "c2")
       IN  /\ heap' = nr.heap
           /\ Y_train_1' = nr.y1
           /\ Y_train_2' = nr.y2
    /\ Y_train_orig_1' = "c1"
    /\ Y_train_orig_2' = "c2"
    /\ pc' = "ResponsesNormalized"
    /\ trace' = Append(trace, "ResponsesNormalized")
    /\ UNCHANGED <<engine, args, fits, log_weight, search, chosen, result, hist>>

-----------------------------------------------------------------------------
(* optimize: surrogates (lines 202-218) *)

FitArgs(y) == [X |-> heap[X_train], Y |-> heap[y]]

\* The answers gp_kernel.get_optimized_kernel can give. When the collaborators
\* are taken to be functions of their arguments (det), a call whose arguments
\* were seen before answers as it did then.
FitChoices1(det) ==
    IF det /\ prev # None /\ prev[1].full
           /\ FitArgs(Y_train_1) = [X |-> prev[1].fit_calls[1].X, Y |-> prev[1].fit_calls[1].Y]
    THEN {prev[1].fit_1[1].hyps}
    ELSE HypsSet

FitChoices2(det, h1) ==
    IF det /\ FitArgs(Y_train_2) = FitArgs(Y_train_1) THEN {h1}
    ELSE IF det /\ prev # None /\ prev[1].full
            /\ FitArgs(Y_train_2) = [X |-> prev[1].fit_calls[2].X, Y |-> prev[1].fit_calls[2].Y]
    THEN {prev[1].fit_2[1].hyps}
    ELSE HypsSet

FitCall(y, ret) == [X |-> heap[X_train], Y |-> heap[y], ret |-> ret]

FitSurrogates(det) ==
    /\ pc = "ResponsesNormalized"
    /\ \E h1 \in FitChoices1(det) : \E h2 \in FitChoices2(det, h1) :
        LET r1 == FitReturn(h1, Rows(heap[X_train]))
            r2 == FitReturn(h2, Rows(heap[X_train]))
        IN  /\ fit_1' = Some(r1)
            /\ fit_2' = Some(r2)
            /\ fit_calls' = <<FitCall(Y_train_1, r1), FitCall(Y_train_2, r2)>>
    /\ pc' = "SurrogatesFitted"
    /\ trace' = Append(trace, "SurrogatesFitted")
    /\ UNCHANGED <<engine, heap, args, ycols, log_weight, search, chosen, result, hist>>

-----------------------------------------------------------------------------
(* optimize: scalarization (lines 222-231) *)

\* seed + 101 is computable and RandomState takes it.
WeightDrawable(s) == s # None /\ SeedAccepted(s[1] + SEED_OFFSET)

BuildAcquisitions ==
    /\ pc = "SurrogatesFitted"
    /\ WeightDrawable(seed)
    /\ log_weight' = Some(DrawLogWeight(seed))
    /\ pc' = "AcquisitionsBuilt"
    /\ trace' = Append(trace, "AcquisitionsBuilt")
    /\ UNCHANGED <<engine, heap, args, ycols, fits, search, chosen, result, hist>>

\* seed is None (TypeError on seed + 101) or seed + 101 is no RandomState seed
\* (ValueError): the round raises at line 229.
DrawWeightFails ==
    /\ pc = "SurrogatesFitted"
    /\ ~WeightDrawable(seed)
    /\ pc' = "failed"
    /\ UNCHANGED <<engine, heap, args, ycols, fits, log_weight, search, chosen,
                   result, trace, hist>>

-----------------------------------------------------------------------------
(* _optimize (lines 58-86) *)

\* Lines 65-67.
Sample ==
    /\ pc = "AcquisitionsBuilt"
    /\ initials' = get_samples(str_sampling_method, num_samples, seed)
    /\ sampler_calls' = Append(sampler_calls,
           [method |-> str_sampling_method, n |-> num_samples, s |-> seed])
    /\ pc' = "Restarting"
    /\ UNCHANGED <<engine, heap, args, ycols, fits, log_weight, list_next_point,
                   unconverged, minimize_calls, chosen, result, trace, hist>>

SameObjective(p) ==
    /\ p.full
    /\ p.fit_1 = fit_1 /\ p.fit_2 = fit_2 /\ p.log_weight = log_weight

\* What minimize can answer for the restart from x0: a point and whether the
\* search converged. Under det a start seen before, for the same objective,
\* is answered with the point it was answered with then.
RunChoices(det, x0) ==
    LET k == Len(minimize_calls) + 1
        all == {[x |-> x, success |-> b] : x \in RawPoints, b \in BOOLEAN}
    IN  IF det /\ \E j \in 1..(k - 1) : initials[j] = x0
        THEN LET j == CHOOSE j \in 1..(k - 1) : initials[j] = x0
             IN  {[x |-> list_next_point[j], success |-> b] : b \in BOOLEAN}
        ELSE IF det /\ prev # None /\ SameObjective(prev[1])
                /\ \E j \in 1..Len(prev[1].initials) : prev[1].initials[j] = x0
        THEN LET j == CHOOSE j \in 1..Len(prev[1].initials) : prev[1].initials[j] = x0
             IN  {[x |-> prev[1].raw[j], success |-> b] : b \in BOOLEAN}
        ELSE all

\* The loop condition of line 69: a start is left to run.
RestartsLeft == Len(minimize_calls) < Len(initials)

\* The loop taking only the points of the runs that converged.
LocalRunConvergedOnly(det) ==
    /\ pc = "Restarting"
    /\ RestartsLeft
    /\ LET x0 == initials[Len(minimize_calls) + 1]
       IN  \E r \in RunChoices(det, x0) :
            /\ list_next_point' = IF r.success THEN Append(list_next_point, r.x)
                                  ELSE list_next_point
            /\ unconverged' = IF r.success THEN unconverged ELSE unconverged + 1
            /\ minimize_calls' = Append(minimize_calls, x0)
    /\ UNCHANGED <<engine, pc, heap, args, ycols, fits, log_weight, initials,
                   sampler_calls, chosen, result, trace, hist>>

\* One iteration of the loop of lines 69-81: the point of the run is taken
\* whatever its status.
LocalRun(det) ==
    /\ pc = "Restarting"
    /\ RestartsLeft
    /\ LET x0 == initials[Len(minimize_calls) + 1]
       IN  \E r \in RunChoices(det, x0) :
            /\ list_next_point' = Append(list_next_point, r.x)
            /\ unconverged' = IF r.success THEN unconverged ELSE unconverged + 1
            /\ minimize_calls' = Append(minimize_calls, x0)
    /\ UNCHANGED <<engine, pc, heap, args, ycols, fits, log_weight, initials,
                   sampler_calls, chosen, result, trace, hist>>

\* Selection by the first objective's closure alone.
SelectionValuesFirstObjective(points) ==
    [i \in 1..Len(points) |->
        Pow10(0 - LOW) * fun_negative_acquisition_i(fit_1[1], points[i])]

\* The objective values _optimize selects by (lines 83-85): the combined
\* objective evaluated on all candidates once the loop has ended.
SelectionValues(points) == Evaluate(points, fit_1[1], fit_2[1], log_weight[1])

BestOf(points) == points[ArgMin(SelectionValues(points))]

\* Lines 83-86, and the return into line 233.
SelectBest ==
    /\ pc = "Restarting"
    /\ ~RestartsLeft
    /\ next_points' = list_next_point
    /\ next_point' = BestOf(list_next_point)
    /\ pc' = "CandidateSelected"
    /\ trace' = Append(trace, "CandidateSelected")
    /\ UNCHANGED <<engine, heap, args, ycols, fits, log_weight, search, result, hist>>

-----------------------------------------------------------------------------
(* optimize: bounds and report (lines 238-269) *)

\* The candidate set passed on without the bounds projection.
ValidatedPointsSkipped(ps) == ps

\* Line 238-239.
ValidatedPoint(p) == check_points_in_bounds(<<p>>)[1]

\* Lines 240-241.
ValidatedPoints(ps) == check_points_in_bounds(ps)

ValidateBounds ==
    /\ pc = "CandidateSelected"
    /\ next_point' = ValidatedPoint(next_point)
    /\ next_points' = ValidatedPoints(next_points)
    /\ pc' = "BoundsValidated"
    /\ trace' = Append(trace, "BoundsValidated")
    /\ UNCHANGED <<engine, heap, args, ycols, fits, log_weight, search, result, hist>>

\* The report with the second surrogate's entries filled from the first.
DictInfoCopied ==
    [next_points   |-> next_points,
     acquisitions  |-> Evaluate(next_points, fit_1[1], fit_2[1], log_weight[1]),
     Y_original_1  |-> Y_train_orig_1,
     Y_original_2  |-> Y_train_orig_2,
     Y_normalized_1 |-> Y_train_1,
     Y_normalized_2 |-> Y_train_2,
     cov_X_X_1     |-> fit_1[1].cov,
     inv_cov_X_X_1 |-> fit_1[1].inv,
     hyps_1        |-> fit_1[1].hyps,
     cov_X_X_2     |-> fit_1[1].cov,
     inv_cov_X_X_2 |-> fit_1[1].inv,
     hyps_2        |-> fit_1[1].hyps]

\* Lines 245, 248-264 (the timings are left out).
DictInfo ==
    [next_points   |-> next_points,
     acquisitions  |-> Evaluate(next_points, fit_1[1], fit_2[1], log_weight[1]),
     Y_original_1  |-> Y_train_orig_1,
     Y_original_2  |-> Y_train_orig_2,
     Y_normalized_1 |-> Y_train_1,
     Y_normalized_2 |-> Y_train_2,
     cov_X_X_1     |-> fit_1[1].cov,
     inv_cov_X_X_1 |-> fit_1[1].inv,
     hyps_1        |-> fit_1[1].hyps,
     cov_X_X_2     |-> fit_2[1].cov,
     inv_cov_X_X_2 |-> fit_2[1].inv,
     hyps_2        |-> fit_2[1].hyps]

Report ==
    /\ pc = "BoundsValidated"
    /\ result' = Some([next_point |-> next_point, dict_info |-> DictInfo])
    /\ pc' = "Done"
    /\ trace' = Append(trace, "Done")
    /\ UNCHANGED <<engine, heap, args, ycols, fits, log_weight, search, chosen, hist>>

-----------------------------------------------------------------------------
(* A second call on the same engine: nothing of the round is kept *)

NextRound ==
    /\ pc = "Done"
    /\ round = 1
    /\ round' = 2
    /\ prev' = Some(RoundSummary)
    /\ pc' = "idle"
    /\ heap' = <<>>
    /\ X_train' = NoRef /\ Y_train' = NoRef
    /\ str_sampling_method' = "" /\ num_samples' = 0 /\ seed' = None
    /\ passed' = None
    /\ Y_train_1' = NoRef /\ Y_train_2' = NoRef
    /\ Y_train_orig_1' = NoRef /\ Y_train_orig_2' = NoRef
    /\ fit_1' = None /\ fit_2' = None /\ fit_calls' = <<>>
    /\ log_weight' = None
    /\ initials' = <<>> /\ list_next_point' = <<>> /\ unconverged' = 0
    /\ minimize_calls' = <<>> /\ sampler_calls' = <<>>
    /\ next_point' = None /\ next_points' = <<>>
    /\ result' = None
    /\ trace' = <<>>
    /\ UNCHANGED engine

-----------------------------------------------------------------------------

Next ==
    \/ CallRejected
    \/ CallAccepted(AllInputs)
    \/ SplitAndNormalize
    \/ FitSurrogates(FALSE)
    \/ BuildAcquisitions
    \/ DrawWeightFails
    \/ Sample
    \/ LocalRun(FALSE)
    \/ SelectBest
    \/ ValidateBounds
    \/ Report

Spec == Init /\ [][Next]_vars

\* Two calls in a row on one engine, the collaborators being functions of
\* their arguments.
NextPair ==
    \/ CallAccepted(PairInputs)
    \/ SplitAndNormalize
    \/ FitSurrogates(TRUE)
    \/ BuildAcquisitions
    \/ Sample
    \/ LocalRun(TRUE)
    \/ SelectBest
    \/ ValidateBounds
    \/ Report
    \/ NextRound

SpecPair == InitPair /\ [][NextPair]_vars

-----------------------------------------------------------------------------
(* Properties *)

Returned == result # None
ReportOf == result[1].dict_info
Objective(x) == fun_negative_acquisition(fit_1[1], fit_2[1], log_weight[1], x)
RoundStates == <<"Start", "ResponsesNormalized", "SurrogatesFitted",
                 "AcquisitionsBuilt", "CandidateSelected", "BoundsValidated", "Done">>

\* C1: whatever the local optimizer returned, the point optimize returns and
\* every row of the report's next_points lie within the bounds of the domain,
\* inclusive, in every coordinate.
C1_ReturnedPointsInBounds ==
    Returned =>
        /\ InBounds(result[1].next_point)
        /\ \A i \in 1..Len(ReportOf.next_points) : InBounds(ReportOf.next_points[i])

\* A round has returned although the selected candidate, and so a row of the
\* candidate set, came back from the local optimizer outside the box.
C1_Witness ==
    /\ Returned
    /\ ~InBounds(BestOf(list_next_point))
    /\ \E i \in 1..Len(list_next_point) : InBounds(list_next_point[i])

\* The entry preconditions the claim C2 lists, on the arguments as passed.
C2_Violation ==
    /\ passed # None
    /\ \/ Cols(passed[1].Y) # 2
       \/ Rows(passed[1].X) # Rows(passed[1].Y)
       \/ Cols(passed[1].X) # num_dim
       \/ num_samples <= 0
       \/ str_sampling_method \notin ALLOWED_SAMPLING_METHOD

\* C2: a call that violates an entry precondition fails before the surrogate
\* fit is invoked even once and returns neither a point nor a report.
C2_RejectedBeforeFit ==
    C2_Violation =>
        /\ pc = "failed"
        /\ fit_calls = <<>>
        /\ trace = <<>>
        /\ result = None

\* A call with a third column in Y_train, all else in order, has failed.
C2_Witness ==
    /\ pc = "failed"
    /\ passed # None
    /\ Cols(passed[1].Y) = 3
    /\ Rows(passed[1].X) = Rows(passed[1].Y)
    /\ Cols(passed[1].X) = num_dim
    /\ num_samples > 0
    /\ str_sampling_method \in ALLOWED_SAMPLING_METHOD

\* C3: a round either fails at the entry checks, before any work, or runs
\* through its states in order; no accepted input (seed = None among them)
\* makes it fail once a surrogate has been fitted.
C3_LinearAllOrNothing ==
    /\ pc = "failed" => (trace = <<>> /\ fit_calls = <<>>)
    /\ pc = "Done" => trace = RoundStates

\* C4: two calls on one engine with the same training data, sampling method,
\* num_samples and integer seed, the collaborators being functions of their
\* arguments, draw the same exponent U and return the same next point and
\* the same candidate set.
C4_Reproducible ==
    (round = 2 /\ passed # None /\ prev[1].inputs = CallInputs) =>
        /\ log_weight # None => log_weight = prev[1].log_weight
        /\ Returned =>
            /\ result[1].next_point = prev[1].next_point
            /\ ReportOf.next_points = prev[1].next_points

\* The second of two calls with equal arguments has returned, two restarts
\* each, one of them answered outside the box.
C4_Witness ==
    /\ round = 2 /\ passed # None /\ prev[1].inputs = CallInputs
    /\ Returned
    /\ num_samples = 2
    /\ \E i \in 1..Len(list_next_point) : ~InBounds(list_next_point[i])

\* Two calls whose arguments differ in the seed alone.
OnlySeedChanged ==
    /\ round = 2 /\ passed # None
    /\ prev[1].inputs.s # seed
    /\ [prev[1].inputs EXCEPT !.s = seed] = CallInputs

\* C5 as stated: changing the seed that the restart sampling uses does not
\* change the scalarization weight.
C5_SeedLeavesWeight ==
    (OnlySeedChanged /\ log_weight # None) => log_weight = prev[1].log_weight

\* C5 as it holds: optimize has one seed, which seeds the restart sampler as
\* it is and the scalarization draw with the offset added. The weight is
\* fixed by the seed alone, whatever the sampling method and num_samples; the
\* sampler is called once, with the method, num_samples and seed of the call,
\* and equal such arguments give equal initial points.
C5_WeightFromSeedAlone ==
    /\ (round = 2 /\ log_weight # None /\ prev[1].inputs.s = seed)
            => log_weight = prev[1].log_weight
    /\ sampler_calls # <<>> =>
            sampler_calls = <<[method |-> str_sampling_method, n |-> num_samples,
                               s |-> seed]>>
    /\ (round = 2 /\ sampler_calls # <<>> /\ prev[1].sampler_calls = sampler_calls)
            => initials = prev[1].initials

\* Two calls with the same seed and another sampling method or another
\* num_samples, the second with its weight drawn and its starts sampled.
C5_Witness ==
    /\ round = 2 /\ log_weight # None /\ sampler_calls # <<>>
    /\ prev[1].inputs.s = seed
    /\ prev[1].inputs.method # str_sampling_method
    /\ prev[1].inputs.n # num_samples

\* C6: the best point is the candidate with the lowest combined negative
\* acquisition, evaluated on the whole candidate set after the restarts; among
\* candidates of exactly that value, the one of the earliest restart.
C6_BestByReevaluation ==
    pc = "CandidateSelected" =>
        \E i \in 1..Len(list_next_point) :
            /\ next_point = list_next_point[i]
            /\ \A j \in 1..Len(list_next_point) :
                  Objective(list_next_point[i]) <= Objective(list_next_point[j])
            /\ \A j \in 1..(i - 1) :
                  Objective(list_next_point[j]) > Objective(list_next_point[i])

\* Two different candidates tie at the lowest value and the earlier is chosen.
C6_Witness ==
    /\ pc = "CandidateSelected"
    /\ Len(list_next_point) = 2
    /\ list_next_point[1] # list_next_point[2]
    /\ Objective(list_next_point[1]) = Objective(list_next_point[2])
    /\ next_point = list_next_point[1]

\* C7: with K = num_samples initial points the local optimizer is invoked
\* once per initial point, in sampler order, and the report holds K
\* candidates, K scores and both surrogates' state as the two fits returned it.
C7_OneRunPerStart ==
    /\ \A k \in 1..Len(minimize_calls) :
          k <= Len(initials) /\ minimize_calls[k] = initials[k]
    /\ (pc = "Done" /\ Len(initials) = num_samples) =>
        /\ minimize_calls = initials
        /\ Len(ReportOf.next_points) = num_samples
        /\ Len(ReportOf.acquisitions) = num_samples
        /\ Len(fit_calls) = 2
        /\ ReportOf.cov_X_X_1 = fit_calls[1].ret.cov
        /\ ReportOf.inv_cov_X_X_1 = fit_calls[1].ret.inv
        /\ ReportOf.hyps_1 = fit_calls[1].ret.hyps
        /\ ReportOf.cov_X_X_2 = fit_calls[2].ret.cov
        /\ ReportOf.inv_cov_X_X_2 = fit_calls[2].ret.inv
        /\ ReportOf.hyps_2 = fit_calls[2].ret.hyps

\* A round of two restarts from different starts has returned, the two fits
\* having answered differently.
C7_Witness ==
    /\ pc = "Done"
    /\ num_samples = 2
    /\ initials[1] # initials[2]
    /\ fit_calls[1].ret # fit_calls[2].ret

\* C8: the caller's X_train and Y_train are never written; the report's
\* Y_original_i is column i of the Y_train passed in, and without
\* normalization Y_normalized_i equals Y_original_i.
C8_TrainingDataUntouched ==
    /\ passed # None =>
        /\ heap[X_train] = passed[1].X
        /\ heap[Y_train] = passed[1].Y
    /\ pc = "Done" =>
        /\ heap[ReportOf.Y_original_1] = Column(passed[1].Y, 1)
        /\ heap[ReportOf.Y_original_2] = Column(passed[1].Y, 2)
        /\ ~normalize_Y =>
            /\ heap[ReportOf.Y_normalized_1] = heap[ReportOf.Y_original_1]
            /\ heap[ReportOf.Y_normalized_2] = heap[ReportOf.Y_original_2]

\* A round with normalization has returned and the normalized first column
\* differs from the original one.
C8_Witness ==
    /\ pc = "Done"
    /\ normalize_Y
    /\ heap[ReportOf.Y_normalized_1] # heap[ReportOf.Y_original_1]

\* C9: the point of every local run is taken whatever its status; restarts
\* that report non-convergence, all of them included, raise nothing, and the
\* round returns the best of the K candidates.
C9_UnconvergedRunsKept ==
    /\ Len(list_next_point) = Len(minimize_calls)
    /\ pc = "failed" => minimize_calls = <<>>
    /\ (pc = "Done" /\ unconverged > 0) =>
        /\ Len(ReportOf.next_points) = num_samples
        /\ \E i \in 1..Len(list_next_point) :
            /\ result[1].next_point = check_points_in_bounds(<<list_next_point[i]>>)[1]
            /\ \A j \in 1..Len(list_next_point) :
                  Objective(list_next_point[i]) <= Objective(list_next_point[j])

\* A round of two restarts has returned with neither of them converged.
C9_Witness ==
    /\ pc = "Done"
    /\ num_samples = 2
    /\ unconverged = 2

\* C10: the returned point is a row of the report's next_points, and no row
\* has a strictly lower value in the report's acquisitions than a row equal
\* to the returned point.
C10_ReturnedIsBestReported ==
    pc = "Done" =>
        /\ \E i \in 1..Len(ReportOf.next_points) :
              ReportOf.next_points[i] = result[1].next_point
        /\ \A i, j \in 1..Len(ReportOf.next_points) :
              ReportOf.next_points[i] = result[1].next_point
                  => ReportOf.acquisitions[j] >= ReportOf.acquisitions[i]

====
